---- MODULE Spec2Model ----
(***************************************************************************)
(* Model of the audio capture pipeline of VoIP-BakingServices.             *)
(*                                                                         *)
(*   Part I   MicrophoneStream (src/src/stream_google_stt.py:20-74, the    *)
(*            same class is repeated in src/src/stream_azure_stt.py        *)
(*            237-289): the callback-to-generator bridge.                  *)
(*   Part II  stream_transcribe of src/src/stream_azure_stt.py:322-475:    *)
(*            the session with its device feed thread.                     *)
(***************************************************************************)
EXTENDS Integers, Sequences, FiniteSets, TLC

\* ------------------------------------------------------------------ bounds
\* Number of periods the device delivers to _fill_buffer in one run.
MaxFrames == 3
\* Number of times __exit__ is called on one MicrophoneStream.
MaxCloses == 2

\* Devices PyAudio enumerates at most.
MaxDevices == 2

\* Events the recognizer sends at most in a session of the presenter.
MaxEvents == 2

VARIABLES
    \* ---- MicrophoneStream object state
    buff,          \* self._buff: queue.Queue, oldest item first
    closed,        \* self._closed
    stream,        \* self._stream, the PortAudio stream:
                   \*   "unset" | "open_failed" | "active" | "stopped" | "closed"
    \* ---- the thread running __exit__
    exitPc,        \* "idle" | "finally" | "put" | "terminate"
    exitErr,       \* an exception of the try block is pending re-raise
    \* ---- the generator object returned by generator()
    genPc,         \* "created" | "get" | "drain" | "suspended" | "done"
    data,          \* the local list `data`
    \* ---- history (observation only)
    pushed,        \* frames _fill_buffer has put, in put order
    yielded,       \* units the generator has yielded, in order
    sealedAt,      \* Len(pushed) when the first None was put, -1 before
    nonePut,       \* number of None put on the queue
    noneGot,       \* number of None the generator has dequeued
    behindNone,    \* a frame was put on the queue after a None
    exitCalls,     \* __exit__ calls started
    exitDone,      \* __exit__ calls finished (returned or raised)
    exitRaised,    \* __exit__ calls that raised
    pushedBlocked, \* every frame so far was put while the consumer was
                   \* blocked in get() on an empty queue
    \* ---- stream_transcribe (Azure): the main thread
    mainPc,        \* "select" | "setup" | "create" | "loop" | "finally" |
                   \* "stop_recog" | "close_push" | "join" | "returned" | "raised"
    usesDevice,    \* selected_device is not None
    audio_stop_event,      \* threading.Event: is_set()
    audio_stream,  \* the PushAudioInputStream: "none" | "open" | "closed"
    recognizer,    \* "none" | "running" | "canceled" | "stopped"
    \* ---- the feed_device_audio thread
    feedPc,        \* "idle" | "open" | "check" | "read" | "write" |
                   \* "finally_set" | "finally_dev" | "finally_push" | "done"
    device,        \* the thread's PyAudio stream:
                   \*   "none" | "open_failed" | "open" | "closed" | "terminated"
    \* ---- the presenter global
    last_interim_display,  \* _last_interim_display
    \* ---- history (observation only)
    deviceCloses,  \* stop_stream()/close() pairs completed on the device
    pushCloses,    \* audio_stream.close() calls
    shutdownLog,   \* first occurrences of the shutdown steps, in order
    notices,       \* kinds of notice printed
    interrupted,   \* KeyboardInterrupt was raised in the main loop
    canceledSeen,  \* a Canceled event was delivered while streaming
    readFailed,    \* stream.read raised in the feed loop
    \* ---- device selection (lines 351-374)
    device_id,     \* the argument: <<>> for None, <<idx>> for a device index
    devices,       \* what PyAudio enumerates, in index order (index 0 first)
    selected_device,   \* <<>> for None, <<idx>> otherwise
    \* ---- history of the feed loop (observation only)
    lateWrite,     \* audio_stream.write was called on the closed push stream
    readsAfterStop,    \* stream.read calls begun with audio_stop_event set
    \* ---- module globals of the reaction
    enable_ai_responses,   \* set at import when the OpenAI client was built
    enable_tts,    \* set at import when the speech synthesizer was built
    \* ---- the recognizer's events and their handler
    service,       \* what the service may still send: per event to come,
                   \* the set of events it can be
    pending,       \* events raised by the SDK, not yet handed to a handler
    handlerPc,     \* the callback thread: "idle", or inside on_recognized
                   \* at "ai" (get_sinhala_response) | "speak" (speak_sinhala_text)
    stdout,        \* the terminal: cells of the current line, cursor column,
                   \* cells of the last line ended by a newline
    \* ---- history (observation only)
    emissions,     \* what the handlers wrote, in order
    delivered,     \* events handed to a handler, in order
    reactionLog,   \* per reaction started: did its Final arrive while
                   \* another reaction was in flight
    reactionFailures   \* reactions whose reply or speech failed

micVars == <<buff, closed, stream, exitPc, exitErr, genPc, data,
             pushed, yielded, sealedAt, nonePut, noneGot, behindNone,
             exitCalls, exitDone, exitRaised, pushedBlocked>>

azureVars == <<mainPc, usesDevice, audio_stop_event, audio_stream, recognizer,
               feedPc, device, last_interim_display, deviceCloses, pushCloses,
               shutdownLog, notices, interrupted, canceledSeen, readFailed,
               device_id, devices, selected_device, lateWrite, readsAfterStop>>

feedHist == <<lateWrite, readsAfterStop>>

selVars == <<device_id, devices, selected_device>>

presVars == <<enable_ai_responses, enable_tts, service, pending, handlerPc,
              stdout, emissions, delivered, reactionLog, reactionFailures>>

vars == <<micVars, azureVars, presVars>>

\* ------------------------------------------------------------- queue items
\* The sentinel put by __exit__ (None) and a frame of PCM bytes (in_data).
None == [kind |-> "none", bytes |-> <<>>]

Frame(b) == [kind |-> "frame", bytes |-> b]

\* The k-th period delivered by the device: its bytes name the period, so a
\* lost, duplicated or reordered frame shows in the byte stream.
InData(k) == <<k>>

\* queue.Queue.put: append at the tail, never blocks (the queue is unbounded).
QueuePut_AtHead(q, item) == <<item>> \o q

QueuePut(q, item) == Append(q, item)

\* b"".join(data): the concatenation of the byte strings of a list.
RECURSIVE Join(_)
Join(list) ==
    IF list = <<>> THEN <<>> ELSE Head(list) \o Join(Tail(list))

\* The byte strings of the frames of a queue content, sentinels left out.
RECURSIVE FrameBytes(_)
FrameBytes(q) ==
    IF q = <<>> THEN <<>>
    ELSE IF Head(q).kind = "frame"
         THEN <<Head(q).bytes>> \o FrameBytes(Tail(q))
         ELSE FrameBytes(Tail(q))

\* Number of positions of byte string s holding b.
Occurrences(b, s) == Cardinality({i \in 1..Len(s) : s[i] = b})

Entered == stream \notin {"unset", "open_failed"}

\* -------------------------------------------------------------- __enter__
\* self._audio_interface.open(...) either returns a started stream, and then
\* _closed becomes False, or raises and leaves the object as constructed.
Enter ==
    /\ stream = "unset"
    /\ \E ok \in BOOLEAN :
          IF ok THEN stream' = "active" /\ closed' = FALSE
                ELSE stream' = "open_failed" /\ closed' = closed
    /\ UNCHANGED <<azureVars, presVars, pushedBlocked>>
    /\ UNCHANGED <<buff, exitPc, exitErr, genPc, data, pushed, yielded,
                   sealedAt, nonePut, noneGot, behindNone, exitCalls,
                   exitDone, exitRaised>>

\* ----------------------------------------------------------- _fill_buffer
\* PortAudio invokes the callback on its own thread while the stream is
\* active; the callback puts in_data unconditionally.
FillBuffer ==
    /\ stream = "active"
    /\ Len(pushed) < MaxFrames
    /\ LET in_data == InData(Len(pushed) + 1) IN
         /\ buff' = QueuePut(buff, Frame(in_data))
         /\ pushed' = Append(pushed, in_data)
    /\ behindNone' = (behindNone \/ nonePut > 0)
    /\ pushedBlocked' = (pushedBlocked /\ genPc = "get" /\ buff = <<>>)
    /\ UNCHANGED <<azureVars, presVars>>
    /\ UNCHANGED <<closed, stream, exitPc, exitErr, genPc, data, yielded,
                   sealedAt, nonePut, noneGot, exitCalls, exitDone, exitRaised>>

\* --------------------------------------------------------------- __exit__
\* What stop_stream(); close() can do to the device stream: both succeed,
\* stop_stream raises (close is then skipped), or close raises.
DeviceStopClose(s, outcome) ==
    CASE outcome = "ok"          -> "closed"
      [] outcome = "stop_raises" -> s
      [] outcome = "close_raises" -> IF s = "closed" THEN "closed" ELSE "stopped"

\* try: self._stream.stop_stream(); self._stream.close()
ExitTry ==
    /\ exitPc = "idle"
    /\ Entered
    /\ exitCalls < MaxCloses
    /\ \E outcome \in {"ok", "stop_raises", "close_raises"} :
          /\ stream' = DeviceStopClose(stream, outcome)
          /\ exitErr' = (outcome # "ok")
    /\ exitPc' = "finally"
    /\ exitCalls' = exitCalls + 1
    /\ UNCHANGED <<azureVars, presVars, pushedBlocked>>
    /\ UNCHANGED <<buff, closed, genPc, data, pushed, yielded, sealedAt,
                   nonePut, noneGot, behindNone, exitDone, exitRaised>>

\* finally: self._closed = True
ExitSetClosed ==
    /\ exitPc = "finally"
    /\ closed' = TRUE
    /\ exitPc' = "put"
    /\ UNCHANGED <<azureVars, presVars, pushedBlocked>>
    /\ UNCHANGED <<buff, stream, exitErr, genPc, data, pushed, yielded,
                   sealedAt, nonePut, noneGot, behindNone, exitCalls,
                   exitDone, exitRaised>>

\* The queue after the finally block's self._buff.put(None).
SentinelPut_Skipped(q) == q

SentinelPut(q) == QueuePut(q, None)

\* finally: self._buff.put(None)
ExitPut ==
    /\ exitPc = "put"
    /\ buff' = SentinelPut(buff)
    /\ nonePut' = nonePut + 1
    /\ sealedAt' = IF sealedAt < 0 THEN Len(pushed) ELSE sealedAt
    /\ exitPc' = "terminate"
    /\ UNCHANGED <<azureVars, presVars, pushedBlocked>>
    /\ UNCHANGED <<closed, stream, exitErr, genPc, data, pushed, yielded,
                   noneGot, behindNone, exitCalls, exitDone, exitRaised>>

\* PyAudio.terminate() closes every stream of the interface still open.
Terminated(s) == IF s \in {"active", "stopped"} THEN "closed" ELSE s

\* finally: self._audio_interface.terminate(); then the pending exception
\* of the try block, if any, propagates to the caller.
ExitTerminate ==
    /\ exitPc = "terminate"
    /\ stream' = Terminated(stream)
    /\ exitRaised' = IF exitErr THEN exitRaised + 1 ELSE exitRaised
    /\ exitErr' = FALSE
    /\ exitDone' = exitDone + 1
    /\ exitPc' = "idle"
    /\ UNCHANGED <<azureVars, presVars, pushedBlocked>>
    /\ UNCHANGED <<buff, closed, genPc, data, pushed, yielded, sealedAt,
                   nonePut, noneGot, behindNone, exitCalls>>

\* -------------------------------------------------------------- generator
\* The consumer asks for the next unit: the generator body runs from its
\* start or from the yield to the loop test `while not self._closed`.
\* mic.generator() is called inside the with block, after __enter__.
GenNext ==
    /\ genPc \in {"created", "suspended"}
    /\ Entered
    /\ genPc' = IF closed THEN "done" ELSE "get"
    /\ UNCHANGED <<azureVars, presVars, pushedBlocked>>
    /\ UNCHANGED <<buff, closed, stream, exitPc, exitErr, data, pushed,
                   yielded, sealedAt, nonePut, noneGot, behindNone,
                   exitCalls, exitDone, exitRaised>>

\* data = [chunk]
FirstData_Empty(chunk) == <<>>

FirstData(chunk) == <<chunk.bytes>>

\* chunk = self._buff.get(): blocks while the queue is empty.
\* None ends the generator; a frame starts the list `data`.
GenGet ==
    /\ genPc = "get"
    /\ buff # <<>>
    /\ LET chunk == Head(buff) IN
         IF chunk = None
         THEN /\ genPc' = "done"
              /\ noneGot' = noneGot + 1
              /\ data' = data
         ELSE /\ genPc' = "drain"
              /\ noneGot' = noneGot
              /\ data' = FirstData(chunk)
    /\ buff' = Tail(buff)
    /\ UNCHANGED <<azureVars, presVars, pushedBlocked>>
    /\ UNCHANGED <<closed, stream, exitPc, exitErr, pushed, yielded,
                   sealedAt, nonePut, behindNone, exitCalls, exitDone,
                   exitRaised>>

\* data.append(chunk)
DataAppend_Overwrite(d, chunk) == <<chunk.bytes>>

DataAppend(d, chunk) == Append(d, chunk.bytes)

\* chunk = self._buff.get(block=False) with an item present: None returns
\* from the generator (the list `data` is discarded), a frame is appended.
GenDrainGet ==
    /\ genPc = "drain"
    /\ buff # <<>>
    /\ LET chunk == Head(buff) IN
         IF chunk = None
         THEN /\ genPc' = "done"
              /\ noneGot' = noneGot + 1
              /\ data' = <<>>
         ELSE /\ genPc' = "drain"
              /\ noneGot' = noneGot
              /\ data' = DataAppend(data, chunk)
    /\ buff' = Tail(buff)
    /\ UNCHANGED <<azureVars, presVars, pushedBlocked>>
    /\ UNCHANGED <<closed, stream, exitPc, exitErr, pushed, yielded,
                   sealedAt, nonePut, behindNone, exitCalls, exitDone,
                   exitRaised>>

\* get(block=False) raises queue.Empty: break, then yield b"".join(data).
GenYield ==
    /\ genPc = "drain"
    /\ buff = <<>>
    /\ yielded' = Append(yielded, Join(data))
    /\ data' = <<>>
    /\ genPc' = "suspended"
    /\ UNCHANGED <<azureVars, presVars, pushedBlocked>>
    /\ UNCHANGED <<buff, closed, stream, exitPc, exitErr, pushed, sealedAt,
                   nonePut, noneGot, behindNone, exitCalls, exitDone,
                   exitRaised>>

\* ================================================ stream_transcribe (Azure)
\* Texts a recognizing event can carry, as sequences of characters; <<>> is
\* the empty text and U+0D86 a Sinhala letter.
InterimTexts == {<<>>, <<"a">>, <<"a", "b">>, <<"U+0D86">>}

\* evt.result.language: "" when the result carries no detected language.
Languages == {"", "si-LK"}

\* The first occurrence of a shutdown step is appended to the log.
Logged(log, step) ==
    IF \E i \in 1..Len(log) : log[i] = step THEN log ELSE Append(log, step)

\* Position of a step in the log, 0 when it has not happened.
LogIndex(log, step) ==
    IF \E i \in 1..Len(log) : log[i] = step
    THEN CHOOSE i \in 1..Len(log) : log[i] = step
    ELSE 0

\* ------------------------------------------------------------ main thread
\* str.lower() on the characters a device name of this model is made of.
LowerChar(ch) ==
    CASE ch = "P" -> "p"
      [] ch = "M" -> "m"
      [] OTHER -> ch

Lower(name) == [i \in 1..Len(name) |-> LowerChar(name[i])]

\* `needle in hay` on strings.
Contains(hay, needle) ==
    \E i \in 1..(Len(hay) - Len(needle) + 1) :
        SubSeq(hay, i, i + Len(needle) - 1) = needle

\* Line 362: "iphone" in info.get("name", "").lower()
NameMatches(info) == Contains(Lower(info.name), <<"i", "p", "h", "o", "n", "e">>)

\* Lines 360-366: the scan in index order; the first match is selected and
\* ends the loop.  infos are the devices the loop got to inspect.
Scan(infos) ==
    IF \E i \in 1..Len(infos) : NameMatches(infos[i])
    THEN <<(CHOOSE i \in 1..Len(infos) :
               /\ NameMatches(infos[i])
               /\ \A j \in 1..(i - 1) : ~NameMatches(infos[j])) - 1>>
    ELSE <<>>

\* Names and capabilities of the devices of this model.
DeviceInfos ==
    [name : {<<"i", "P", "h", "o", "n", "e">>, <<"M", "a", "c">>},
     maxInputChannels : {0, 1}]

\* All enumerations of n devices, and of up to n devices.
DeviceListsOf(n) == [1..n -> DeviceInfos]

DeviceLists(n) == UNION {DeviceListsOf(k) : k \in 0..n}

\* Lines 351-374: selected_device is the explicit device, or the first device
\* of the scan whose name matches, else None (the default microphone is
\* used).  PyAudio may raise at any point of the lookup: the error is printed
\* and selected_device keeps the value it had.
MainSelect ==
    /\ mainPc = "select"
    /\ \E seen \in 0..Len(devices), raises \in BOOLEAN :
          /\ ~raises => seen = Len(devices)
          /\ selected_device' =
                 IF device_id # <<>> THEN device_id
                                     ELSE Scan(SubSeq(devices, 1, seen))
          /\ notices' =
                 IF raises /\ (device_id # <<>> \/ Scan(SubSeq(devices, 1, seen)) = <<>>)
                 THEN notices \cup {"lookup_error"}
                 ELSE notices
    /\ usesDevice' = (selected_device' # <<>>)
    /\ mainPc' = "setup"
    /\ UNCHANGED micVars
    /\ UNCHANGED presVars
    /\ UNCHANGED feedHist
    /\ UNCHANGED <<device_id, devices>>
    /\ UNCHANGED <<audio_stop_event, audio_stream, recognizer, feedPc, device,
                   last_interim_display, deviceCloses, pushCloses, shutdownLog,
                   interrupted, canceledSeen, readFailed>>

\* Lines 395-448: with a device, the push stream is created and the feed
\* thread started; without, the default microphone is configured.
MainSetup ==
    /\ mainPc = "setup"
    /\ IF usesDevice
       THEN audio_stream' = "open" /\ feedPc' = "open"
       ELSE audio_stream' = audio_stream /\ feedPc' = feedPc
    /\ mainPc' = "create"
    /\ UNCHANGED micVars
    /\ UNCHANGED selVars
    /\ UNCHANGED feedHist
    /\ UNCHANGED presVars
    /\ UNCHANGED <<usesDevice, audio_stop_event, recognizer, device,
                   last_interim_display, deviceCloses, pushCloses, shutdownLog,
                   notices, interrupted, canceledSeen, readFailed>>

\* Lines 450-459: the recognizer is created, its handlers connected and
\* continuous recognition started; these calls are outside the try block, so
\* an exception of the SDK leaves stream_transcribe at once.
MainStartRecognition ==
    /\ mainPc = "create"
    /\ \E ok \in BOOLEAN :
          IF ok THEN recognizer' = "running" /\ mainPc' = "loop"
                ELSE recognizer' = recognizer /\ mainPc' = "raised"
    /\ UNCHANGED micVars
    /\ UNCHANGED selVars
    /\ UNCHANGED feedHist
    /\ UNCHANGED presVars
    /\ UNCHANGED <<usesDevice, audio_stop_event, audio_stream, feedPc, device,
                   last_interim_display, deviceCloses, pushCloses, shutdownLog,
                   notices, interrupted, canceledSeen, readFailed>>

\* Lines 461-465: `while True: time.sleep(0.1)` is left only by a
\* KeyboardInterrupt, which is caught and leads into the finally block.
MainInterrupt ==
    /\ mainPc = "loop"
    /\ interrupted' = TRUE
    /\ mainPc' = "finally"
    /\ UNCHANGED micVars
    /\ UNCHANGED selVars
    /\ UNCHANGED feedHist
    /\ UNCHANGED presVars
    /\ UNCHANGED <<usesDevice, audio_stop_event, audio_stream, recognizer,
                   feedPc, device, last_interim_display, deviceCloses,
                   pushCloses, shutdownLog, notices, canceledSeen, readFailed>>

\* Line 467: audio_stop_event.set()
MainSetStop ==
    /\ mainPc = "finally"
    /\ audio_stop_event' = TRUE
    /\ mainPc' = "stop_recog"
    /\ UNCHANGED micVars
    /\ UNCHANGED selVars
    /\ UNCHANGED feedHist
    /\ UNCHANGED presVars
    /\ UNCHANGED <<usesDevice, audio_stream, recognizer, feedPc, device,
                   last_interim_display, deviceCloses, pushCloses, shutdownLog,
                   notices, interrupted, canceledSeen, readFailed>>

\* Line 468: speech_recognizer.stop_continuous_recognition(); an exception
\* of the SDK skips the rest of the finally block.
MainStopRecognition ==
    /\ mainPc = "stop_recog"
    /\ \E ok \in BOOLEAN :
          IF ok
          THEN /\ recognizer' = "stopped"
               /\ shutdownLog' = Logged(shutdownLog, "remote_closed")
               /\ mainPc' = "close_push"
          ELSE /\ recognizer' = recognizer
               /\ shutdownLog' = shutdownLog
               /\ mainPc' = "raised"
    /\ UNCHANGED micVars
    /\ UNCHANGED selVars
    /\ UNCHANGED feedHist
    /\ UNCHANGED presVars
    /\ UNCHANGED <<usesDevice, audio_stop_event, audio_stream, feedPc, device,
                   last_interim_display, deviceCloses, pushCloses, notices,
                   interrupted, canceledSeen, readFailed>>

\* Lines 469-473: if audio_stream: audio_stream.close(), exceptions dropped.
MainClosePush ==
    /\ mainPc = "close_push"
    /\ IF audio_stream # "none"
       THEN /\ audio_stream' = "closed"
            /\ pushCloses' = pushCloses + 1
            /\ shutdownLog' = Logged(shutdownLog, "end_of_input")
       ELSE UNCHANGED <<audio_stream, pushCloses, shutdownLog>>
    /\ mainPc' = "join"
    /\ UNCHANGED micVars
    /\ UNCHANGED selVars
    /\ UNCHANGED feedHist
    /\ UNCHANGED presVars
    /\ UNCHANGED <<usesDevice, audio_stop_event, recognizer, feedPc, device,
                   last_interim_display, deviceCloses, notices, interrupted,
                   canceledSeen, readFailed>>

\* The feed thread has been started and has not ended (is_alive()).
FeedAlive == feedPc \notin {"idle", "done"}

\* Whether `if audio_thread and audio_thread.is_alive(): join(timeout=1.0)`
\* lets the caller go on: no living thread, or the second has passed.
JoinReturns(alive, timedOut) == ~alive \/ timedOut

\* Lines 474-475: a living feed thread is joined for at most one second;
\* then stream_transcribe returns.
MainJoin ==
    /\ mainPc = "join"
    /\ \E timedOut \in BOOLEAN : JoinReturns(FeedAlive, timedOut)
    /\ mainPc' = "returned"
    /\ UNCHANGED micVars
    /\ UNCHANGED selVars
    /\ UNCHANGED feedHist
    /\ UNCHANGED presVars
    /\ UNCHANGED <<usesDevice, audio_stop_event, audio_stream, recognizer,
                   feedPc, device, last_interim_display, deviceCloses,
                   pushCloses, shutdownLog, notices, interrupted, canceledSeen,
                   readFailed>>

\* ------------------------------------------------------ feed_device_audio
\* Lines 411-420 and 429-430: pa_local.open(...) returns the device stream,
\* or raises, which is printed as a microphone error.  pyaudio.PyAudio()
\* (line 411) is called before the try statement: if it raises, the thread
\* ends at once, without the except clause and without the finally block.
FeedOpen ==
    /\ feedPc = "open"
    /\ \E outcome \in {"opened", "open_raises", "init_raises"} :
          CASE outcome = "opened" ->
                 /\ device' = "open"
                 /\ notices' = notices
                 /\ feedPc' = "check"
            [] outcome = "open_raises" ->
                 /\ device' = "open_failed"
                 /\ notices' = notices \cup {"mic_error"}
                 /\ feedPc' = "finally_set"
            [] OTHER ->
                 /\ device' = device
                 /\ notices' = notices
                 /\ feedPc' = "done"
    /\ UNCHANGED micVars
    /\ UNCHANGED selVars
    /\ UNCHANGED feedHist
    /\ UNCHANGED presVars
    /\ UNCHANGED <<mainPc, usesDevice, audio_stop_event, audio_stream,
                   recognizer, last_interim_display, deviceCloses, pushCloses,
                   shutdownLog, interrupted, canceledSeen, readFailed>>

\* Line 421: while not audio_stop_event.is_set()
FeedCheck ==
    /\ feedPc = "check"
    /\ feedPc' = IF audio_stop_event THEN "finally_set" ELSE "read"
    /\ UNCHANGED micVars
    /\ UNCHANGED selVars
    /\ UNCHANGED feedHist
    /\ UNCHANGED presVars
    /\ UNCHANGED <<mainPc, usesDevice, audio_stop_event, audio_stream,
                   recognizer, device, last_interim_display, deviceCloses,
                   pushCloses, shutdownLog, notices, interrupted, canceledSeen,
                   readFailed>>

\* Lines 422-424 and 429-430: stream.read returns a chunk, returns nothing
\* (continue), or raises, which is printed as a microphone error.
FeedRead ==
    /\ feedPc = "read"
    /\ \E r \in {"data", "empty", "raises"} :
          CASE r = "data"   -> /\ feedPc' = "write"
                               /\ UNCHANGED <<notices, readFailed>>
            [] r = "empty"  -> /\ feedPc' = "check"
                               /\ UNCHANGED <<notices, readFailed>>
            [] r = "raises" -> /\ feedPc' = "finally_set"
                               /\ notices' = notices \cup {"mic_error"}
                               /\ readFailed' = TRUE
    /\ UNCHANGED micVars
    /\ UNCHANGED selVars
    /\ readsAfterStop' = readsAfterStop + (IF audio_stop_event THEN 1 ELSE 0)
    /\ UNCHANGED lateWrite
    /\ UNCHANGED presVars
    /\ UNCHANGED <<mainPc, usesDevice, audio_stop_event, audio_stream,
                   recognizer, device, last_interim_display, deviceCloses,
                   pushCloses, shutdownLog, interrupted, canceledSeen>>

\* Line 426 runs whatever the main thread has done to the push stream
\* meanwhile: the write is late when the stream was closed before it.
WriteIsLate(push) == push = "closed"

\* Lines 425-428: audio_stream.write(data); an exception breaks the loop.
FeedWrite ==
    /\ feedPc = "write"
    /\ \E ok \in BOOLEAN : feedPc' = IF ok THEN "check" ELSE "finally_set"
    /\ UNCHANGED micVars
    /\ UNCHANGED selVars
    /\ lateWrite' = (lateWrite \/ WriteIsLate(audio_stream))
    /\ UNCHANGED readsAfterStop
    /\ UNCHANGED presVars
    /\ UNCHANGED <<mainPc, usesDevice, audio_stop_event, audio_stream,
                   recognizer, device, last_interim_display, deviceCloses,
                   pushCloses, shutdownLog, notices, interrupted, canceledSeen,
                   readFailed>>

\* Line 432: audio_stop_event.set()
FeedFinallySet ==
    /\ feedPc = "finally_set"
    /\ audio_stop_event' = TRUE
    /\ feedPc' = "finally_dev"
    /\ UNCHANGED micVars
    /\ UNCHANGED selVars
    /\ UNCHANGED feedHist
    /\ UNCHANGED presVars
    /\ UNCHANGED <<mainPc, usesDevice, audio_stream, recognizer, device,
                   last_interim_display, deviceCloses, pushCloses, shutdownLog,
                   notices, interrupted, canceledSeen, readFailed>>

\* Lines 433-439: if stream: stop_stream(); close(), exceptions dropped;
\* pa_local.terminate() then releases a stream that a failed stop_stream or
\* close left open.
FeedFinallyDevice ==
    /\ feedPc = "finally_dev"
    /\ IF device = "open"
       THEN /\ \E ok \in BOOLEAN :
                  IF ok
                  THEN device' = "closed" /\ deviceCloses' = deviceCloses + 1
                  ELSE device' = "terminated" /\ deviceCloses' = deviceCloses
            /\ shutdownLog' = Logged(shutdownLog, "capture_stopped")
       ELSE UNCHANGED <<device, deviceCloses, shutdownLog>>
    /\ feedPc' = "finally_push"
    /\ UNCHANGED micVars
    /\ UNCHANGED selVars
    /\ UNCHANGED feedHist
    /\ UNCHANGED presVars
    /\ UNCHANGED <<mainPc, usesDevice, audio_stop_event, audio_stream,
                   recognizer, last_interim_display, pushCloses, notices,
                   interrupted, canceledSeen, readFailed>>

\* Lines 440-443: audio_stream.close(), exceptions dropped; the thread ends.
FeedFinallyPush ==
    /\ feedPc = "finally_push"
    /\ audio_stream' = "closed"
    /\ pushCloses' = pushCloses + 1
    /\ shutdownLog' = Logged(shutdownLog, "end_of_input")
    /\ feedPc' = "done"
    /\ UNCHANGED micVars
    /\ UNCHANGED selVars
    /\ UNCHANGED feedHist
    /\ UNCHANGED presVars
    /\ UNCHANGED <<mainPc, usesDevice, audio_stop_event, recognizer, device,
                   last_interim_display, deviceCloses, notices, interrupted,
                   canceledSeen, readFailed>>

\* ------------------------------------------------------ recognizer events
\* Lines 100-102: the characters normalize_sinhala_text removes.
ZeroWidth == {"U+200C", "U+200D", "U+FEFF"}

IsKept(ch) == ch \notin ZeroWidth

\* Runs of spaces become one space.
RECURSIVE Squeeze(_)
Squeeze(text) ==
    IF Len(text) < 2 THEN text
    ELSE IF text[1] = " " /\ text[2] = " "
         THEN Squeeze(Tail(text))
         ELSE <<text[1]>> \o Squeeze(Tail(text))

\* A leading and a trailing space are dropped.
Trim(text) ==
    LET left == IF text # <<>> /\ Head(text) = " " THEN Tail(text) ELSE text
    IN  IF left # <<>> /\ left[Len(left)] = " "
        THEN SubSeq(left, 1, Len(left) - 1)
        ELSE left

\* normalize_sinhala_text (lines 91-108): the zero-width characters are
\* removed and ' '.join(text.split()) applied.  The characters of this model
\* are in NFC already.
normalize_sinhala_text(text) ==
    IF text = <<>> THEN text
    ELSE Trim(Squeeze(SelectSeq(text, IsKept)))

\* get_display_width (lines 150-158): 2 per character of the Sinhala block,
\* 1 per other character.
RECURSIVE get_display_width(_)
get_display_width(text) ==
    IF text = <<>> THEN 0
    ELSE (IF Head(text) = "U+0D86" THEN 2 ELSE 1) + get_display_width(Tail(text))

\* " " * n
Spaces(n) == [i \in 1..n |-> " "]

\* The terminal: a character takes the cell under the cursor and moves the
\* cursor one cell on; "\r" moves the cursor to the first cell; "\n" ends
\* the line.
WriteChar(term, ch) ==
    CASE ch = "\r" -> [term EXCEPT !.cursor = 0]
      [] ch = "\n" -> [line |-> <<>>, cursor |-> 0, last |-> term.line]
      [] OTHER ->
           [term EXCEPT
               !.line = IF term.cursor < Len(term.line)
                        THEN [term.line EXCEPT ![term.cursor + 1] = ch]
                        ELSE Append(term.line, ch),
               !.cursor = term.cursor + 1]

\* sys.stdout.write(chars)
RECURSIVE Write(_, _)
Write(term, chars) ==
    IF chars = <<>> THEN term
    ELSE Write(WriteChar(term, Head(chars)), Tail(chars))

\* print(chars)
PrintLine(term, chars) == Write(term, chars \o <<"\n">>)

\* What a line shows: its cells without the blank cells at its end.
RECURSIVE Visible(_)
Visible(cells) ==
    IF cells # <<>> /\ cells[Len(cells)] = " "
    THEN Visible(SubSeq(cells, 1, Len(cells) - 1))
    ELSE cells

\* One more entry of the emission history.
Emit(log, kind, text) == Append(log, [kind |-> kind, text |-> text])

\* Line 164: `if not _last_interim_display: return`
ClearNeeded_Always(display) == TRUE

ClearNeeded(display) == display # <<>>

\* Line 166: "\r" + " " * get_display_width(_last_interim_display) + "\r"
ClearWrite(display) ==
    IF ClearNeeded(display)
    THEN <<"\r">> \o Spaces(get_display_width(display)) \o <<"\r">>
    ELSE <<>>

ClearEmission(log, display) ==
    IF ClearNeeded(display) THEN Emit(log, "clear", <<>>) ELSE log

\* _clear_interim_line (lines 161-168) leaves _last_interim_display empty.
ClearInterimLine_Kept(display) == display

ClearInterimLine(display) == <<>>

\* Lines 178-180, 202-204: the prefix "[language] " when show_lang is set (it
\* always is, line 455) and a language is given.
Prefix(language) ==
    IF language # "" THEN <<"[", language, "]", " ">> ELSE <<>>

\* Lines 178-182: display = the memo sign (U+1F4DD), a space, the prefix
\* "[language] " when show_lang is set (it always is, line 455) and a
\* language is given, then the text.
Display(text, language) ==
    <<"U+1F4DD", " ">>
        \o (IF language # "" THEN <<"[", language, "]", " ">> ELSE <<>>)
        \o text

\* Line 206: the check mark (U+2705), a space, the prefix, the text.
FinalDisplay(text, language) == <<"U+2705", " ">> \o Prefix(language) \o text

\* Texts a recognized event can carry: one that is empty after
\* normalize_sinhala_text, and one that is not.
FinalTexts == {<<"U+200D", " ">>, <<"c">>}

\* The events of the recognizer.  "other" is a recognized event whose reason
\* is neither RecognizedSpeech nor NoMatch.
Interims == [kind : {"interim"}, text : InterimTexts, language : Languages]

Finals == [kind : {"final"}, text : FinalTexts, language : Languages]

NoMatchEvent == [kind |-> "nomatch", text |-> <<>>, language |-> ""]

CanceledEvent == [kind |-> "canceled", text |-> <<>>, language |-> ""]

OtherEvent == [kind |-> "other", text |-> <<>>, language |-> ""]

Events == Interims \cup Finals \cup {NoMatchEvent, CanceledEvent, OtherEvent}

\* Lines 141, 503: the width the indicators are blanked over.
IndicatorWidth == 20

\* The fixed messages, shortened to their sign and a word.
ThinkingText == <<"U+1F914", "AI">>

AIErrorText == <<"\r", "U+274C", "AI">>

ReplyText == <<"U+1F916", " ", "r">>

SpeakingText == <<"U+1F50A">>

SpokenText == <<"U+1F3B5">>

TTSErrorText == <<"U+274C", "TTS">>

SpeechErrorText == <<"\r", "U+274C", "speech">>

NotUnderstoodText == <<"U+1F937">>

CanceledText == <<"U+274C", "Azure">>

\* Lines 455-459: the SDK raises the recognizer's events one after the other
\* on its own thread; a Canceled event is the last one of a session.  An
\* event raised while on_recognized is still busy waits for it to return.
Arrive ==
    /\ recognizer = "running"
    /\ service # <<>>
    /\ \A i \in 1..Len(pending) : pending[i].event.kind # "canceled"
    /\ \E e \in Head(service) :
          pending' = Append(pending, [event |-> e, busy |-> handlerPc # "idle"])
    /\ service' = Tail(service)
    /\ UNCHANGED micVars
    /\ UNCHANGED azureVars
    /\ UNCHANGED <<enable_ai_responses, enable_tts, handlerPc, stdout,
                   emissions, delivered, reactionLog, reactionFailures>>

\* The handler is free and an event of the kind waits for it.
Handed(kind) ==
    /\ recognizer = "running"
    /\ handlerPc = "idle"
    /\ pending # <<>>
    /\ Head(pending).event.kind = kind

\* on_recognizing (lines 171-185): an empty text changes nothing; otherwise
\* the display line is written and becomes the global.
OnRecognizing ==
    /\ Handed("interim")
    /\ LET e == Head(pending).event
           text == normalize_sinhala_text(e.text)
           display == Display(text, e.language)
       IN  /\ IF text = <<>>
              THEN UNCHANGED <<last_interim_display, stdout, emissions>>
              ELSE /\ stdout' = Write(stdout, <<"\r">> \o display)
                   /\ emissions' = Emit(emissions, "interim", display)
                   /\ last_interim_display' = display
           /\ delivered' = Append(delivered, e)
    /\ pending' = Tail(pending)
    /\ UNCHANGED micVars
    /\ UNCHANGED selVars
    /\ UNCHANGED feedHist
    /\ UNCHANGED <<enable_ai_responses, enable_tts, service, handlerPc,
                   reactionLog, reactionFailures>>
    /\ UNCHANGED <<mainPc, usesDevice, audio_stop_event, audio_stream,
                   recognizer, feedPc, device, deviceCloses, pushCloses,
                   shutdownLog, notices, interrupted, canceledSeen, readFailed>>

\* Line 197: `if not text: return`
FinalIgnored_Never(text) == FALSE

FinalIgnored(text) == text = <<>>

\* on_recognized (lines 188-208): a NoMatch clears the interim line and
\* prints the notice; any other reason than RecognizedSpeech returns; a
\* text that is empty after normalization returns; otherwise the interim
\* line is cleared and the final line printed, and with enable_ai_responses
\* the handler goes on to get_sinhala_response.
OnRecognized ==
    /\ \/ Handed("final")
       \/ Handed("nomatch")
       \/ Handed("other")
    /\ LET e == Head(pending).event
           text == normalize_sinhala_text(e.text)
           cleared == Write(stdout, ClearWrite(last_interim_display))
       IN  /\ delivered' = Append(delivered, e)
           /\ CASE e.kind = "nomatch" ->
                    /\ stdout' = PrintLine(cleared, NotUnderstoodText)
                    /\ emissions' = Emit(ClearEmission(emissions, last_interim_display),
                                         "nomatch", NotUnderstoodText)
                    /\ last_interim_display' = ClearInterimLine(last_interim_display)
                    /\ UNCHANGED <<handlerPc, reactionLog>>
                [] e.kind = "final" /\ ~FinalIgnored(text) ->
                    /\ stdout' = PrintLine(cleared, FinalDisplay(text, e.language))
                    /\ emissions' = Emit(ClearEmission(emissions, last_interim_display),
                                         "final", FinalDisplay(text, e.language))
                    /\ last_interim_display' = ClearInterimLine(last_interim_display)
                    /\ IF enable_ai_responses
                       THEN /\ handlerPc' = "ai"
                            /\ reactionLog' = Append(reactionLog, Head(pending).busy)
                       ELSE UNCHANGED <<handlerPc, reactionLog>>
                [] OTHER ->
                    UNCHANGED <<stdout, emissions, last_interim_display,
                                handlerPc, reactionLog>>
    /\ pending' = Tail(pending)
    /\ UNCHANGED micVars
    /\ UNCHANGED selVars
    /\ UNCHANGED feedHist
    /\ UNCHANGED <<enable_ai_responses, enable_tts, service, reactionFailures>>
    /\ UNCHANGED <<mainPc, usesDevice, audio_stop_event, audio_stream,
                   recognizer, feedPc, device, deviceCloses, pushCloses,
                   shutdownLog, notices, interrupted, canceledSeen, readFailed>>

\* Lines 146-148: the except clause of get_sinhala_response prints the error.
ReportAIError_Silent(log) == log

ReportAIError(log) == Emit(log, "ai_error", AIErrorText)

\* get_sinhala_response (lines 110-148) and lines 209-211, on the callback
\* thread: the indicator is printed and the completion requested.  A reply
\* blanks the indicator and, unless empty, is printed before
\* speak_sinhala_text is called; an exception prints the error and the
\* reply is "".
ReactionAI ==
    /\ handlerPc = "ai"
    /\ LET thinking == Write(stdout, ThinkingText)
           blanked == Write(thinking, <<"\r">> \o Spaces(IndicatorWidth) \o <<"\r">>)
           shown == Emit(emissions, "ai_thinking", ThinkingText)
       IN  \E outcome \in {"reply", "empty", "error"} :
              CASE outcome = "reply" ->
                    /\ stdout' = PrintLine(blanked, ReplyText)
                    /\ emissions' = Emit(shown, "ai_reply", ReplyText)
                    /\ handlerPc' = "speak"
                    /\ UNCHANGED reactionFailures
                [] outcome = "empty" ->
                    /\ stdout' = blanked
                    /\ emissions' = shown
                    /\ handlerPc' = "idle"
                    /\ UNCHANGED reactionFailures
                [] OTHER ->
                    /\ stdout' = PrintLine(thinking, AIErrorText)
                    /\ emissions' = ReportAIError(shown)
                    /\ handlerPc' = "idle"
                    /\ reactionFailures' = reactionFailures + 1
    /\ UNCHANGED micVars
    /\ UNCHANGED azureVars
    /\ UNCHANGED <<enable_ai_responses, enable_tts, service, pending,
                   delivered, reactionLog>>

\* speak_sinhala_text (lines 477-511), called from on_recognized: nothing
\* without enable_tts; otherwise the indicator is printed and the synthesis
\* awaited, then the indicator blanked and the result printed; an exception
\* prints the error.
ReactionSpeak ==
    /\ handlerPc = "speak"
    /\ LET speaking == Write(stdout, SpeakingText)
           blanked == Write(speaking, <<"\r">> \o Spaces(IndicatorWidth) \o <<"\r">>)
           shown == Emit(emissions, "tts_speaking", SpeakingText)
       IN  IF ~enable_tts
           THEN UNCHANGED <<stdout, emissions, reactionFailures>>
           ELSE \E outcome \in {"completed", "failed", "raised"} :
                  CASE outcome = "completed" ->
                        /\ stdout' = PrintLine(blanked, SpokenText)
                        /\ emissions' = Emit(shown, "tts_done", SpokenText)
                        /\ UNCHANGED reactionFailures
                    [] outcome = "failed" ->
                        /\ stdout' = PrintLine(blanked, TTSErrorText)
                        /\ emissions' = Emit(shown, "tts_error", TTSErrorText)
                        /\ reactionFailures' = reactionFailures + 1
                    [] OTHER ->
                        /\ stdout' = PrintLine(speaking, SpeechErrorText)
                        /\ emissions' = Emit(shown, "speech_error", SpeechErrorText)
                        /\ reactionFailures' = reactionFailures + 1
    /\ handlerPc' = "idle"
    /\ UNCHANGED micVars
    /\ UNCHANGED azureVars
    /\ UNCHANGED <<enable_ai_responses, enable_tts, service, pending,
                   delivered, reactionLog>>

\* on_canceled (lines 215-227): the interim line is cleared and the
\* cancellation printed, with its reason and, when given, its details;
\* nothing of the session is touched.
OnCanceled ==
    /\ Handed("canceled")
    /\ recognizer' = "canceled"
    /\ last_interim_display' = ClearInterimLine(last_interim_display)
    /\ \E details \in BOOLEAN :
          stdout' =
              LET cleared == Write(stdout, ClearWrite(last_interim_display))
                  notice == PrintLine(PrintLine(cleared, CanceledText), <<"reason">>)
              IN  IF details THEN PrintLine(notice, <<"details">>) ELSE notice
    /\ emissions' = Emit(ClearEmission(emissions, last_interim_display),
                         "canceled", CanceledText)
    /\ delivered' = Append(delivered, Head(pending).event)
    /\ pending' = Tail(pending)
    /\ notices' = notices \cup {"canceled"}
    /\ canceledSeen' = (canceledSeen \/ mainPc = "loop")
    /\ UNCHANGED micVars
    /\ UNCHANGED selVars
    /\ UNCHANGED feedHist
    /\ UNCHANGED <<enable_ai_responses, enable_tts, service, handlerPc,
                   reactionLog, reactionFailures>>
    /\ UNCHANGED <<mainPc, usesDevice, audio_stop_event, audio_stream, feedPc,
                   device, deviceCloses, pushCloses, shutdownLog, interrupted,
                   readFailed>>

\* MicrophoneStream.__init__: empty queue, _closed = True, no stream yet.
MicInit ==
    /\ buff = <<>>
    /\ closed = TRUE
    /\ stream = "unset"
    /\ exitPc = "idle"
    /\ exitErr = FALSE
    /\ genPc = "created"
    /\ data = <<>>
    /\ pushed = <<>>
    /\ yielded = <<>>
    /\ sealedAt = -1
    /\ nonePut = 0
    /\ noneGot = 0
    /\ behindNone = FALSE
    /\ exitCalls = 0
    /\ exitDone = 0
    /\ exitRaised = 0
    /\ pushedBlocked = TRUE

\* Lines 395-397 and the module globals: nothing is open yet.
MainInit ==
    /\ mainPc = "select"
    /\ usesDevice = FALSE
    /\ audio_stop_event = FALSE
    /\ audio_stream = "none"
    /\ recognizer = "none"
    /\ feedPc = "idle"
    /\ device = "none"
    /\ last_interim_display = <<>>
    /\ deviceCloses = 0
    /\ pushCloses = 0
    /\ shutdownLog = <<>>
    /\ notices = {}
    /\ interrupted = FALSE
    /\ canceledSeen = FALSE
    /\ readFailed = FALSE
    /\ selected_device = <<>>
    /\ lateWrite = FALSE
    /\ readsAfterStop = 0

\* A session on a machine with no matching device or with one.
SessionDeviceLists ==
    {<<>>, <<[name |-> <<"i", "P", "h", "o", "n", "e">>, maxInputChannels |-> 1]>>}

\* Lines 59-89 and 292-320: replies and speech are enabled or not at import.
\* No event was raised yet; what stream_transcribe prints before it starts
\* the recognizer ends with a newline, so the terminal is on an empty line.
HandlerInit ==
    /\ enable_ai_responses \in BOOLEAN
    /\ enable_tts \in BOOLEAN
    /\ pending = <<>>
    /\ handlerPc = "idle"
    /\ stdout = [line |-> <<>>, cursor |-> 0, last |-> <<>>]
    /\ emissions = <<>>
    /\ delivered = <<>>
    /\ reactionLog = <<>>
    /\ reactionFailures = 0

\* What the service sends in a session of the whole program, per event.
SessionEvents ==
    {[kind |-> "interim", text |-> <<"a">>, language |-> ""],
     [kind |-> "interim", text |-> <<>>, language |-> ""],
     [kind |-> "final", text |-> <<"c">>, language |-> ""],
     [kind |-> "final", text |-> <<"U+200D", " ">>, language |-> ""],
     NoMatchEvent, CanceledEvent}

AzureInit ==
    /\ MainInit
    /\ device_id = <<>>
    /\ devices \in SessionDeviceLists
    /\ HandlerInit
    /\ service = <<SessionEvents, SessionEvents>>

\* The default microphone, and up to MaxEvents events of any kind.
PresenterInit ==
    /\ MicInit
    /\ MainInit
    /\ device_id = <<>>
    /\ devices = <<>>
    /\ HandlerInit
    /\ service = [i \in 1..MaxEvents |-> Events]

\* The default microphone, and the service sending two interim results, a
\* final one, a NoMatch and the cancellation.
SequenceInit ==
    /\ MicInit
    /\ MainInit
    /\ device_id = <<>>
    /\ devices = <<>>
    /\ HandlerInit
    /\ service = <<Interims, Interims, Finals, {NoMatchEvent}, {CanceledEvent}>>

\* Any enumeration of up to MaxDevices devices, with or without an explicit
\* device index.
SelectInit ==
    /\ MicInit
    /\ MainInit
    /\ device_id \in {<<>>} \cup {<<idx>> : idx \in 0..(MaxDevices - 1)}
    /\ devices \in DeviceLists(MaxDevices)
    /\ HandlerInit
    /\ service = <<>>

MainStep ==
    \/ MainSelect
    \/ MainSetup
    \/ MainStartRecognition
    \/ MainSetStop
    \/ MainStopRecognition
    \/ MainClosePush
    \/ MainJoin

FeedStep ==
    \/ FeedOpen
    \/ FeedCheck
    \/ FeedRead
    \/ FeedWrite
    \/ FeedFinallySet
    \/ FeedFinallyDevice
    \/ FeedFinallyPush

HandlerStep ==
    \/ Arrive
    \/ OnRecognizing
    \/ OnRecognized
    \/ ReactionAI
    \/ ReactionSpeak
    \/ OnCanceled

AzureNext ==
    \/ MainStep
    \/ MainInterrupt
    \/ FeedStep
    \/ HandlerStep

\* ---------------------------------------------------------- specification
MicNext ==
    \/ Enter
    \/ FillBuffer
    \/ ExitTry
    \/ ExitSetClosed
    \/ ExitPut
    \/ ExitTerminate
    \/ GenNext
    \/ GenGet
    \/ GenDrainGet
    \/ GenYield

Init == MicInit /\ AzureInit

\* One MicrophoneStream with its callback, its closer and its consumer.
Next == MicNext

Spec == Init /\ [][Next]_vars

\* The consumer thread keeps running the generator while it can, and a
\* started __exit__ runs to its end.
FairSpec ==
    /\ Spec
    /\ WF_vars(GenNext)
    /\ WF_vars(GenGet)
    /\ WF_vars(GenDrainGet)
    /\ WF_vars(GenYield)
    /\ WF_vars(ExitSetClosed)
    /\ WF_vars(ExitPut)
    /\ WF_vars(ExitTerminate)

\* One run of stream_transcribe with its feed thread and its recognizer.
AzureSpec == Init /\ [][AzureNext]_vars

\* The device selection alone, over every enumeration.
SelectNext ==
    \/ MainSelect
    \/ MainSetup

SelectSpec == SelectInit /\ [][SelectNext]_vars

\* A session on the default microphone up to its main loop, and the
\* recognizer's events.
PresenterNext ==
    \/ MainSelect
    \/ MainSetup
    \/ MainStartRecognition
    \/ HandlerStep

PresenterSpec == PresenterInit /\ [][PresenterNext]_vars

SequenceSpec == SequenceInit /\ [][PresenterNext]_vars

\* Both threads keep running; the KeyboardInterrupt and the recognizer's
\* events come from outside and are not owed to the program.
AzureFairSpec ==
    /\ AzureSpec
    /\ WF_vars(MainStep)
    /\ WF_vars(FeedStep)

\* ======================================================= MicrophoneStream
\* ------------------------------------------------------------------- C1
\* No stop_stream() or close() of the device has raised so far.
NoDeviceFailure == exitRaised = 0 /\ ~exitErr

\* C1 (as claimed): when the generator has ended, every frame enqueued
\* before the first sentinel occurs in exactly one yielded unit. Stated for
\* the runs in which no device call fails, which the claim includes.
C1_EveryFrameBeforeSentinelYielded ==
    (genPc = "done" /\ sealedAt >= 0 /\ NoDeviceFailure) =>
        \A k \in 1..sealedAt : Occurrences(k, Join(yielded)) = 1

\* ------------------------------------------------------------------- C2
\* C2: while no close has been called, no frame is lost, duplicated or
\* reordered: the units yielded, then the frames held in `data`, then the
\* frames still queued are exactly the frames pushed, in push order; so a
\* consumer that resumes and is handed a unit on an emptied queue has
\* received exactly the frames pushed.
C2_NoLossWhileOpen ==
    exitCalls = 0 =>
        /\ Join(yielded) \o Join(data) \o Join(FrameBytes(buff)) = Join(pushed)
        /\ (genPc = "suspended" /\ buff = <<>>) => Join(yielded) = Join(pushed)

\* Three frames were pushed while the consumer was away; it then received
\* them, at least two in one unit, with the stream still open.
C2_Witness ==
    /\ exitCalls = 0
    /\ stream = "active"
    /\ genPc = "suspended"
    /\ Len(pushed) = MaxFrames
    /\ \E i \in 1..Len(yielded) : Len(yielded[i]) >= 2
    /\ Join(yielded) = Join(pushed)

\* ------------------------------------------------------------------- C3
\* C3 (as claimed): once a close call has finished, exactly one sentinel
\* has ever been put and no close call has raised.
C3_CloseIdempotent ==
    exitDone >= 1 => (nonePut = 1 /\ exitRaised = 0)

\* ------------------------------------------------------------------- C4
\* C4 (as claimed): after a finished close, no frame has been enqueued
\* behind the sentinel, and a generator that has ended has dequeued the
\* sentinel exactly once. Stated for the runs in which no device call
\* fails, which the claim includes.
C4_EndsOnOneSentinel ==
    (exitDone >= 1 /\ NoDeviceFailure) =>
        /\ ~behindNone
        /\ genPc = "done" => noneGot = 1

\* ------------------------------------------------------------------- C5
\* C5: after a finished __exit__, a consumer blocked in get, in the drain
\* loop or suspended at the yield eventually sees the generator end.
C5_ConsumerNeverLeftBlocked ==
    (exitDone >= 1 /\ genPc \in {"get", "drain", "suspended"}) ~> (genPc = "done")

\* __exit__ has finished while the consumer is blocked in the queue get.
C5_Witness ==
    /\ exitDone >= 1
    /\ genPc = "get"
    /\ nonePut >= 1

\* ============================================== stream_transcribe (Azure)
\* ------------------------------------------------------------------- C6
\* C6 (as claimed): when the main thread's finally block and the feed
\* thread's finally block have both run on an opened device, the device was
\* closed exactly once and audio_stream.close was called exactly once.
C6_StopPathActsOnce ==
    (mainPc = "returned" /\ feedPc = "done" /\ device = "closed") =>
        (deviceCloses = 1 /\ pushCloses = 1)

\* ------------------------------------------------------------------- C7
\* C7 (as claimed): when stream_transcribe has returned from a session that
\* opened the device, capture was stopped, then end-of-input was signalled,
\* then the recognizer was stopped, all before the return.
C7_ShutdownInOrder ==
    (mainPc = "returned" /\ device \in {"open", "closed", "terminated"}) =>
        LET c == LogIndex(shutdownLog, "capture_stopped")
            e == LogIndex(shutdownLog, "end_of_input")
            r == LogIndex(shutdownLog, "remote_closed")
        IN  0 < c /\ c < e /\ e < r

\* ------------------------------------------------------------------- C8
\* C8 (as claimed, for the return through the finally block; the claim
\* covers a raise as well): once stream_transcribe has returned, the device
\* stream of the session is no longer open.
C8_CaptureEndsWithSession ==
    mainPc = "returned" => device # "open"

\* ------------------------------------------------------------------- C9
\* C9 (as claimed): a Canceled event delivered while the main thread is in
\* its loop leads to stream_transcribe ending, without a KeyboardInterrupt
\* being owed.
C9_CanceledEndsSession ==
    canceledSeen ~> (mainPc \in {"returned", "raised"})

\* ------------------------------------------------------------------ C10
\* C10 (as claimed): a failed device read in the feed loop leads, like a
\* caller's stop, to the session leaving its main loop and ending, without a
\* KeyboardInterrupt being owed.
C10_CaptureErrorEndsSession ==
    readFailed ~> (mainPc \in {"returned", "raised"})

\* ------------------------------------------------------------------ C11
\* C11 (as claimed): once opening the capture device has failed, the remote
\* recognition is not started.
C11_OpenFailureStartsNothing ==
    [][(device = "open_failed" /\ recognizer = "none") => recognizer' = "none"]_vars

\* ================================================ recognizer events
\* The most recent element of a history.
Last(log) == log[Len(log)]

\* An event that carries a text which is not empty after normalization.
HasText(e, kind) == e.kind = kind /\ normalize_sinhala_text(e.text) # <<>>

\* The step hands a Final event to on_recognized.
FinalHanded == Handed("final") /\ delivered' # delivered

\* ------------------------------------------------------------------ C12
\* C12 (as claimed): a Final that arrives while a reaction is in flight is
\* displayed but runs no reaction, neither at once nor later.
C12_LateFinalRunsNoReaction ==
    \A i \in 1..Len(reactionLog) : ~reactionLog[i]

\* ------------------------------------------------------------------ C13
ErrorKinds == {"ai_error", "tts_error", "speech_error"}

\* C13: every failed reaction is reported; the step in which it fails
\* returns the handler and leaves the session as it was (streaming); and
\* after a failure a Final with a text, handed over with reactions enabled,
\* starts a reaction again.
C13_FailedReactionNeverWedges ==
    /\ [](reactionFailures =
             Cardinality({i \in 1..Len(emissions) : emissions[i].kind \in ErrorKinds}))
    /\ [][reactionFailures' # reactionFailures =>
             /\ handlerPc' = "idle"
             /\ mainPc' = mainPc
             /\ recognizer' = recognizer]_vars
    /\ [][(/\ reactionFailures > 0
           /\ enable_ai_responses
           /\ FinalHanded
           /\ HasText(Head(pending).event, "final")) =>
             /\ handlerPc' = "ai"
             /\ reactionLog' # reactionLog]_vars

\* A first reaction failed, the session is still in its main loop and the
\* reaction of a second Final is running.
C13_Witness ==
    /\ reactionFailures = 1
    /\ Len(reactionLog) = 2
    /\ handlerPc = "ai"
    /\ mainPc = "loop"
    /\ recognizer = "running"

\* ------------------------------------------------------------------ C14
\* C14 (as claimed): right after Interim(a), Interim(b), Final(c) with
\* non-empty texts, the line that was committed shows exactly the final
\* display, with no cell of an interim left.
C14_CommittedLineIsFinalText ==
    LET n == Len(delivered) IN
    (/\ n >= 3
     /\ HasText(delivered[n - 2], "interim")
     /\ HasText(delivered[n - 1], "interim")
     /\ HasText(delivered[n], "final")
     /\ Last(emissions).kind = "final") =>
        Visible(stdout.last) = Last(emissions).text

\* ------------------------------------------------------------------ C15
\* C15 (as claimed): after an Interim with a non-empty text is processed,
\* the live line shows exactly the new display, which is the DisplayState.
C15_LiveLineIsNewInterim ==
    (delivered # <<>> /\ HasText(Last(delivered), "interim")) =>
        /\ last_interim_display =
               Display(normalize_sinhala_text(Last(delivered).text),
                       Last(delivered).language)
        /\ Visible(stdout.line) = last_interim_display

\* ------------------------------------------------------------------ C16
\* An event that changes the DisplayState when processed.
StateChanging(e) ==
    \/ e.kind \in {"nomatch", "canceled"}
    \/ HasText(e, "interim")
    \/ HasText(e, "final")

\* C16: _last_interim_display is non-empty exactly when the most recent
\* state-changing event processed is a non-empty Interim (so it is empty
\* after every non-empty Final, NoMatch and Canceled), and it changes only
\* in a step that hands such an event to its handler.
C16_DisplayStateFollowsEvents ==
    /\ [](LET changing == SelectSeq(delivered, StateChanging) IN
          last_interim_display # <<>> <=>
              (changing # <<>> /\ Last(changing).kind = "interim"))
    /\ [][last_interim_display' # last_interim_display =>
             /\ Len(delivered') = Len(delivered) + 1
             /\ StateChanging(Last(delivered'))]_vars

\* A shown interim was cleared by a Final with a text.
C16_Witness ==
    /\ Len(delivered) = 2
    /\ HasText(delivered[1], "interim")
    /\ HasText(delivered[2], "final")
    /\ last_interim_display = <<>>

\* ------------------------------------------------------------------ C17
\* C17: the step that hands over a Final whose text is empty after
\* normalization writes nothing, emits nothing, leaves
\* _last_interim_display as it was and starts no reaction.
C17_EmptyFinalIgnored ==
    [][(FinalHanded /\ ~HasText(Head(pending).event, "final")) =>
          /\ stdout' = stdout
          /\ emissions' = emissions
          /\ last_interim_display' = last_interim_display
          /\ handlerPc' = "idle"
          /\ reactionLog' = reactionLog]_vars

\* An empty Final was processed while an interim line was pending.
C17_Witness ==
    /\ Len(delivered) = 2
    /\ HasText(delivered[1], "interim")
    /\ delivered[2].kind = "final"
    /\ ~HasText(delivered[2], "final")
    /\ last_interim_display # <<>>
    /\ Visible(stdout.line) = last_interim_display

\* ------------------------------------------------------------------ C18
\* What the presenter emits, as opposed to the reaction.
IsPresenterEmission(em) ==
    em.kind \in {"interim", "clear", "final", "nomatch", "canceled"}

\* The five events with non-empty texts have all been processed.
SequenceProcessed ==
    /\ Len(delivered) = 5
    /\ HasText(delivered[1], "interim")
    /\ HasText(delivered[2], "interim")
    /\ HasText(delivered[3], "final")
    /\ delivered[4].kind = "nomatch"
    /\ delivered[5].kind = "canceled"

\* C18: once Interim, Interim, Final, NoMatch, Canceled (texts non-empty)
\* are processed, the presenter has emitted exactly: the first interim, the
\* second interim, the clearing of the interim line and the final line, the
\* not-understood notice and the cancellation notice, in this order.
C18_EmissionsInOrder ==
    SequenceProcessed =>
        SelectSeq(emissions, IsPresenterEmission) =
            <<[kind |-> "interim",
               text |-> Display(normalize_sinhala_text(delivered[1].text),
                                delivered[1].language)],
              [kind |-> "interim",
               text |-> Display(normalize_sinhala_text(delivered[2].text),
                                delivered[2].language)],
              [kind |-> "clear", text |-> <<>>],
              [kind |-> "final",
               text |-> FinalDisplay(normalize_sinhala_text(delivered[3].text),
                                     delivered[3].language)],
              [kind |-> "nomatch", text |-> NotUnderstoodText],
              [kind |-> "canceled", text |-> CanceledText]>>

\* The whole sequence was processed, with a reaction run for the Final.
C18_Witness ==
    /\ SequenceProcessed
    /\ Len(reactionLog) = 1
    /\ handlerPc = "idle"

\* ================================================ device selection
\* A device the claim lets the scan select: input-capable and matching.
InputCapableMatch(info) == info.maxInputChannels > 0 /\ NameMatches(info)

\* ------------------------------------------------------------------ C19
\* C19 (as claimed): with no explicit device, the selected device is the
\* first one that both has input channels and whose name contains "iphone"
\* in any case; with none, the default input is used; an explicit device is
\* used unchanged.
C19_SelectsFirstMatchingInput ==
    (mainPc # "select" /\ "lookup_error" \notin notices) =>
        /\ device_id # <<>> => selected_device = device_id
        /\ (device_id = <<>> /\ selected_device # <<>>) =>
              LET i == selected_device[1] + 1 IN
              /\ i \in 1..Len(devices)
              /\ InputCapableMatch(devices[i])
              /\ \A j \in 1..(i - 1) : ~InputCapableMatch(devices[j])
        /\ (device_id = <<>> /\ selected_device = <<>>) =>
              \A i \in 1..Len(devices) : ~InputCapableMatch(devices[i])

\* ================================================ MicrophoneStream, again
\* ------------------------------------------------------------------ C20
\* C20: if every frame was pushed while the consumer was blocked in get()
\* on an empty queue, every yielded unit holds exactly one frame (a frame of
\* this model is one byte long).
C20_OneFramePerUnit ==
    pushedBlocked => \A i \in 1..Len(yielded) : Len(yielded[i]) = Len(InData(i))

\* All frames were pushed one at a time to a blocked consumer, and each has
\* been yielded.
C20_Witness ==
    /\ pushedBlocked
    /\ Len(pushed) = MaxFrames
    /\ Len(yielded) = MaxFrames
    /\ genPc = "suspended"
\* ============================================== stream_transcribe, again
\* ------------------------------------------------------------------ C22
\* C22 (as claimed): when a call to the recognizer fails after the device
\* was opened, the device gets closed and end-of-input gets signalled on
\* the push stream.
C22_RemoteFailureClosesCapture ==
    (mainPc = "raised" /\ device = "open") ~>
        (device # "open" /\ audio_stream = "closed")

\* ------------------------------------------------------------------ C23
\* C23 (as claimed): audio_stream.write is never called after
\* audio_stream.close, whichever thread closed the push stream.
C23_NoWriteAfterClose == ~lateWrite

\* ------------------------------------------------------------------ C24
\* C24 (as claimed): audio_stop_event is never cleared; at most one
\* stream.read is begun after it was set; and when the feed thread has
\* ended, the event is set, the push stream is closed, and a device stream
\* the thread opened was stopped and closed, once.
C24_FeedThreadEndsClean ==
    /\ [](readsAfterStop <= 1)
    /\ [](feedPc = "done" =>
             /\ audio_stop_event
             /\ audio_stream = "closed"
             /\ device \in {"open_failed", "closed"}
             /\ deviceCloses = (IF device = "closed" THEN 1 ELSE 0))
    /\ [][audio_stop_event => audio_stop_event']_vars

\* ================================================ MicrophoneStream, once more
\* ------------------------------------------------------------------ C21
\* C21: the units yielded so far, concatenated, are the bytes of the first
\* frames pushed, in push order, cut at a frame boundary; every unit holds
\* at least one frame; the step that dequeues the sentinel ends the
\* generator and yields nothing, and nothing is yielded after it.
C21_YieldedIsPrefixOfPushed ==
    /\ [](/\ Len(Join(yielded)) <= Len(Join(pushed))
          /\ Join(yielded) = SubSeq(Join(pushed), 1, Len(Join(yielded)))
          /\ \E n \in 0..Len(pushed) :
                Join(yielded) = Join(SubSeq(pushed, 1, n))
          /\ \A i \in 1..Len(yielded) : Len(yielded[i]) >= Len(InData(1)))
    /\ [][noneGot' # noneGot => (genPc' = "done" /\ yielded' = yielded)]_vars
    /\ [][genPc = "done" => (genPc' = "done" /\ yielded' = yielded)]_vars

\* A unit of two frames and a unit of one were yielded, then the sentinel
\* was dequeued and ended the generator.
C21_Witness ==
    /\ Len(yielded) = 2
    /\ \E i \in 1..2 : Len(yielded[i]) = 2 * Len(InData(1))
    /\ noneGot = 1
    /\ genPc = "done"

====
